---- MODULE Spec2Model ----
(***************************************************************************)
(* A model of mfpfdzfppffzy: the progressive filter pipeline (FilterView), *)
(* the stage executors (container_view, track_view, singles_view), the     *)
(* entry formatting and de-duplication helpers of views.py, the key        *)
(* binding compiler of bind.py, the tag defaulting and the reconnecting    *)
(* decorator of client.py, and one run of the command line program of      *)
(* cli.py with the listener thread of the control pipe.                    *)
(*                                                                         *)
(* Strings are sequences of tokens.  A token is either one character that  *)
(* the code treats specially (":", ",", "(", "&", "\n", ...) or a word     *)
(* that stands for a run of ordinary characters ("ctrl-a", "Radiohead").   *)
(***************************************************************************)
EXTENDS Integers, Sequences, FiniteSets, TLC

(***************************************************************************)
(* Bounds of the model.                                                    *)
(***************************************************************************)
MaxStages == 3
MaxSteps == 4

(***************************************************************************)
(* Python values: None and str.                                            *)
(***************************************************************************)
None == [some |-> FALSE, val |-> <<>>]
Str(s) == [some |-> TRUE, val |-> s]

VARIABLES
    \* FilterView
    views,            \* self.views: the ViewSettings the pipeline was built with
    fv_dynamic_headers, \* self.dynamic_headers
    final_view,       \* self.final_view
    state,            \* self.state
    final_state,      \* self.final_state
    selections,       \* self.selections, a dict in insertion order
    pc,               \* where the caller of the pipeline is
    execLog,          \* one entry per stage executed so far
    findCalls,        \* the mpc.find calls of get_filtered_selection
    \* adapt_find_duplicates
    find_list,        \* the fzf_string of each item of find_list
    dup_input,        \* find_list as it was passed in
    dup_pc,           \* "idle", "call" or "done"
    \* get_formatted_output_line
    term_width,       \* shutil.get_terminal_size().columns
    fmt_args,         \* *args
    fmt_out,          \* the returned line
    fmt_pc,           \* "idle", "call" or "done"
    \* ConnectClient.find / search
    required_tags,    \* self.required_tags
    find_kind,        \* "find" or "search"
    find_req,         \* the required_tags keyword argument of the call
    find_match,       \* what MPDClient.find / search returned
    find_ret,         \* what the decorated method returned
    find_calls,       \* number of calls made
    client_pc,        \* position of the main thread in find / search
    lf_pc,            \* position of the listener thread in its find / search
    lf_ret,           \* what the listener's call returned: "match" or "ensured"
    \* KeyBindings
    bind_items,       \* the bindings the user wrote, one record each
    bind_given,       \* FALSE: --bind was not given, args is None
    bind_str,         \* args: the --bind string
    bind_dict,        \* self.bind_dict, in insertion order
    bind_tuple,       \* self.bind_tuple
    keybinds,         \* ViewSettings.keybinds
    kb_pc,            \* "idle", "call", "done", "settings" or "TypeError"
    \* always_connect
    ac_cmd,           \* the decorated command that is called
    ac_timeout,       \* timeout
    ac_v,             \* v
    ac_last,          \* what the latest call of f returned
    ac_attempts,      \* number of calls of f
    ac_reconnects,    \* number of calls of instance.connect()
    ac_exc,           \* the exception that left wrapped, "" if none
    ac_pc,            \* "idle", "try", "except", "connect", "returned", "raised"
    \* one run of the command line program: main flow and listener thread
    cli_cmd,          \* cli_args.command[0]
    cli_bare,         \* cli_args.bare
    cli_bind,         \* FALSE: cli_args.bind is None
    fifo_exists,      \* the named pipe self.fifo is on disk
    log_exists,       \* the log file of the fifo logger is on disk
    atexit_fns,       \* the callbacks registered with atexit, in order
    conn_users,       \* the threads that are inside a command on the connection
    main_pc,          \* where the main flow is
    main_exc,         \* the exception the main flow raised, "" if none
    query_out,        \* how the command of the main flow ended, "" before
    fzf_out,          \* what became of the selector: "", an error, or "ran"
    fzf_rc,           \* the exit status of the selector, -1 before
    view_sel,         \* what create_view returned
    reported,         \* what the program printed about an error
    exit_code,        \* the exit status of the process, -1 while it runs
    listener_pc,      \* where the listener thread is
    listener_exc,     \* the exception that ended the listener, "" if none
    msg,              \* the message the listener is working on
    received,         \* the messages read from the fifo so far
    dispatched,       \* the commands the listener called, with their outcome
    warnings,         \* the messages the fifo logger logged a warning for
    \* ViewSettings: header and update_headers
    vs_cmd,           \* self.cmd, a list of strings
    vs_dynamic_headers, \* self.dynamic_headers
    vs_width,         \* shutil.get_terminal_size().columns
    vs_header_str,    \* self.header_str
    vs_header,        \* self.header as read after the latest operation
    vs_prev_header,   \* self.header as read before the latest operation
    vs_op,            \* the latest operation and its argument
    vs_ops,           \* number of operations so far
    \* the fifo between the bindings' echo commands and receive_from_fifo
    echo_lines,       \* the lines the echo commands of one binding write
    echo_idx,         \* the echo command that is running
    echo_pc,          \* its position: open, write, close
    fifo_writers,     \* number of open write ends
    fifo_reader,      \* the listener holds the read end
    fifo_wake,        \* a writer opened the fifo since the listener's open began
    fifo_buf,         \* the bytes in the pipe
    rff_pc,           \* position of receive_from_fifo
    rff_msg,          \* what fifo.read() has collected
    rff_cmds          \* the argument lists handed to run_mpd_command

pipeVars == <<views, fv_dynamic_headers, final_view, state, final_state,
              selections, pc, execLog, findCalls>>

dupVars == <<find_list, dup_input, dup_pc>>

fmtVars == <<term_width, fmt_args, fmt_out, fmt_pc>>

clientVars == <<required_tags, find_kind, find_req, find_match, find_ret,
                find_calls, client_pc, lf_pc, lf_ret>>

bindVars == <<bind_items, bind_given, bind_str, bind_dict, bind_tuple,
              keybinds, kb_pc>>

callVars == <<ac_cmd, ac_timeout, ac_v, ac_last, ac_attempts, ac_reconnects,
              ac_exc, ac_pc>>

sessVars == <<cli_cmd, cli_bare, cli_bind, fifo_exists, log_exists,
              atexit_fns, conn_users, main_pc, main_exc, query_out, fzf_out,
              fzf_rc, view_sel, reported, exit_code, listener_pc,
              listener_exc, msg, received, dispatched, warnings>>

hdrVars == <<vs_cmd, vs_dynamic_headers, vs_width, vs_header_str, vs_header,
             vs_prev_header, vs_op, vs_ops>>

fifoVars == <<echo_lines, echo_idx, echo_pc, fifo_writers, fifo_reader,
              fifo_wake, fifo_buf, rff_pc, rff_msg, rff_cmds>>

notPipe ==
    <<dupVars, fmtVars, clientVars, bindVars, callVars, sessVars, hdrVars, fifoVars>>

notDup ==
    <<pipeVars, fmtVars, clientVars, bindVars, callVars, sessVars, hdrVars, fifoVars>>

notFmt ==
    <<pipeVars, dupVars, clientVars, bindVars, callVars, sessVars, hdrVars, fifoVars>>

notClient ==
    <<pipeVars, dupVars, fmtVars, bindVars, callVars, sessVars, hdrVars, fifoVars>>

notBind ==
    <<pipeVars, dupVars, fmtVars, clientVars, callVars, sessVars, hdrVars, fifoVars>>

notCall ==
    <<pipeVars, dupVars, fmtVars, clientVars, bindVars, sessVars, hdrVars, fifoVars>>

notSess ==
    <<pipeVars, dupVars, fmtVars, clientVars, bindVars, callVars, hdrVars, fifoVars>>

notHdr ==
    <<pipeVars, dupVars, fmtVars, clientVars, bindVars, callVars, sessVars, fifoVars>>

notFifo ==
    <<pipeVars, dupVars, fmtVars, clientVars, bindVars, callVars, sessVars, hdrVars>>

vars ==
    <<pipeVars, dupVars, fmtVars, clientVars, bindVars, callVars, sessVars, hdrVars, fifoVars>>

(***************************************************************************)
(* The external selector (fzf) and what it can answer.                     *)
(***************************************************************************)
NL == "\n"
ExitStatuses == {0, 1, 2, 130}
Lines == {"Radiohead", "OK Computer", "Airbag"}
\* stdout of fzf: the chosen line and a newline on status 0, nothing otherwise
FzfAnswers ==
    {[rc |-> 0, stdout |-> <<l, NL>>] : l \in Lines}
        \cup {[rc |-> r, stdout |-> <<>>] : r \in ExitStatuses \ {0}}

RECURSIVE lstrip(_, _)
lstrip(s, c) == IF s # <<>> /\ Head(s) = c THEN lstrip(Tail(s), c) ELSE s

RECURSIVE rstrip(_, _)
rstrip(s, c) ==
    IF s # <<>> /\ s[Len(s)] = c THEN rstrip(SubSeq(s, 1, Len(s) - 1), c) ELSE s

\* str.strip(c)
strip(s, c) == rstrip(lstrip(s, c), c)

(***************************************************************************)
(* views.py: the stage executors.  The answer of the selector is an input. *)
(***************************************************************************)
create_view(answer) ==
    IF answer.rc = 0 THEN Str(strip(answer.stdout, NL)) ELSE None

\* create_view is called and its result is dropped: the function ends
\* without a return statement
create_plain_view(answer) ==
    LET dropped == create_view(answer) IN None

create_view_with_custom_entries(answer) ==
    LET dropped == create_view(answer) IN None

container_view(answer) == create_plain_view(answer)

track_view(answer) == create_view_with_custom_entries(answer)

singles_view(answer) == create_view_with_custom_entries(answer)

FinalViews == {"track_view", "singles_view", "container_view"}

\* getattr(sys.modules[__name__], self.final_view)(self.mpc, view)
call_final_view(name, answer) ==
    CASE name = "track_view" -> track_view(answer)
      [] name = "singles_view" -> singles_view(answer)
      [] OTHER -> container_view(answer)

\* the collaborator method each executor calls
query_kind(name) == IF name = "container_view" THEN "list" ELSE "find"

(***************************************************************************)
(* views.py: FilterView.                                                   *)
(***************************************************************************)
Fields == <<"artist", "album", "title", "genre">>

ViewSettings(cmd) == [cmd |-> cmd, header_str |-> <<>>]

\* dict lookup and assignment, keeping insertion order
HasKey(d, k) == \E i \in 1..Len(d) : d[i].key = k
Lookup(d, k) == d[CHOOSE i \in 1..Len(d) : d[i].key = k].value
Assign(d, k, v) ==
    IF HasKey(d, k)
    THEN [i \in 1..Len(d) |-> IF d[i].key = k THEN [key |-> k, value |-> v]
                                               ELSE d[i]]
    ELSE Append(d, [key |-> k, value |-> v])

move_forward(s) == s + 1

move_backward_twice(s) == s - 2

move_backward(s) == s - 1

RECURSIVE append_filters_to_list(_, _, _)
\* for state, sel in self.selections.items(): l += [views[state].cmd[0], sel]
append_filters_to_list(l, sels, vs) ==
    IF sels = <<>> THEN l
    ELSE append_filters_to_list(
             l \o <<Str(<<vs[Head(sels).key + 1].cmd[1]>>), Head(sels).value>>,
             Tail(sels), vs)

\* a deep copy of the active view with the header and the filters added
get_adapted_view(vs, st, sels, dyn) ==
    LET view == vs[st + 1]
        hdr == IF dyn /\ st # 0 THEN Lookup(sels, st - 1) ELSE Str(view.header_str)
    IN [cmd |-> append_filters_to_list(
                    [i \in 1..Len(view.cmd) |-> Str(<<view.cmd[i]>>)], sels, vs),
        header |-> hdr]

\* view.header = self.selections[self.state - 1] fails for a missing key
header_KeyError(st, sels, dyn) == dyn /\ st # 0 /\ ~ HasKey(sels, st - 1)

deepcopy_shared(vs, st, view) ==
    [vs EXCEPT ![st + 1] =
        [cmd |-> [i \in 1..Len(view.cmd) |->
                     IF view.cmd[i].some THEN view.cmd[i].val[1] ELSE "None"],
         header_str |-> IF view.header.some THEN view.header.val ELSE <<>>]]

\* self.views after the adapted view was built and handed to the stage's
\* function: view is a deepcopy of the active view, so what is written to
\* it never shows in self.views
deepcopy(vs, st, view) == vs

\* the view function call_view_function picks for the stage
stage_function(st, fs, fname) ==
    IF st < fs - 1 THEN "container_view" ELSE fname

call_view_function(st, fs, fname, answer) ==
    IF st < fs - 1 THEN container_view(answer) ELSE call_final_view(fname, answer)

PipeIdle ==
    /\ views = <<>>
    /\ final_state = 0
    /\ fv_dynamic_headers = FALSE
    /\ final_view = "track_view"
    /\ state = 0
    /\ selections = <<>>
    /\ pc = "idle"
    /\ execLog = <<>>
    /\ findCalls = <<>>

DupIdle ==
    /\ find_list = <<>>
    /\ dup_input = <<>>
    /\ dup_pc = "idle"

FmtIdle ==
    /\ term_width = 0
    /\ fmt_args = <<>>
    /\ fmt_out = <<>>
    /\ fmt_pc = "idle"

\* kwargs.pop("required_tags", False): the keyword was not given
NoTags == [given |-> FALSE, tags |-> <<>>]

ClientIdle ==
    /\ required_tags = NoTags
    /\ find_kind = "find"
    /\ find_req = NoTags
    /\ find_match = <<>>
    /\ find_ret = <<>>
    /\ find_calls = 0
    /\ client_pc = "idle"
    /\ lf_pc = "idle"
    /\ lf_ret = ""

BindIdle ==
    /\ bind_items = <<>>
    /\ bind_str = <<>>
    /\ bind_dict = <<>>
    /\ bind_tuple = <<>>
    /\ bind_given = FALSE
    /\ keybinds = <<>>
    /\ kb_pc = "idle"

CallIdle ==
    /\ ac_cmd = ""
    /\ ac_timeout = 0
    /\ ac_v = None
    /\ ac_last = None
    /\ ac_attempts = 0
    /\ ac_reconnects = 0
    /\ ac_exc = ""
    /\ ac_pc = "idle"

SessIdle ==
    /\ cli_cmd = ""
    /\ cli_bare = FALSE
    /\ cli_bind = FALSE
    /\ fifo_exists = FALSE
    /\ log_exists = FALSE
    /\ atexit_fns = <<>>
    /\ conn_users = {}
    /\ main_pc = "idle"
    /\ main_exc = ""
    /\ query_out = ""
    /\ fzf_out = ""
    /\ fzf_rc = -1
    /\ view_sel = None
    /\ reported = ""
    /\ exit_code = -1
    /\ listener_pc = "idle"
    /\ listener_exc = ""
    /\ msg = <<>>
    /\ received = <<>>
    /\ dispatched = <<>>
    /\ warnings = <<>>

HdrIdle ==
    /\ vs_cmd = <<>>
    /\ vs_dynamic_headers = 0
    /\ vs_width = 0
    /\ vs_header_str = None
    /\ vs_header = <<>>
    /\ vs_prev_header = <<>>
    /\ vs_op = [name |-> "", args |-> <<>>]
    /\ vs_ops = 0

FifoIdle ==
    /\ echo_lines = <<>>
    /\ echo_idx = 0
    /\ echo_pc = "idle"
    /\ fifo_writers = 0
    /\ fifo_reader = FALSE
    /\ fifo_wake = FALSE
    /\ fifo_buf = <<>>
    /\ rff_pc = "idle"
    /\ rff_msg = <<>>
    /\ rff_cmds = <<>>

PipeInit ==
    /\ \E n \in 1..MaxStages :
          /\ views = [i \in 1..n |-> ViewSettings(<<Fields[i]>>)]
          /\ final_state = n
    /\ fv_dynamic_headers \in BOOLEAN
    /\ final_view \in FinalViews
    /\ state = 0
    /\ selections = <<>>
    /\ pc = "pass_through"
    /\ execLog = <<>>
    /\ findCalls = <<>>

\* one iteration of the loop of pass_through
PassThroughStep ==
    /\ pc = "pass_through"
    /\ state \in 0..(final_state - 1)
    /\ Len(execLog) < MaxSteps
    /\ ~ header_KeyError(state, selections, fv_dynamic_headers)
    /\ \E answer \in FzfAnswers :
          LET view == get_adapted_view(views, state, selections,
                                       fv_dynamic_headers)
              sel == call_view_function(state, final_state, final_view, answer)
          IN /\ selections' = Assign(selections, state, sel)
             /\ execLog' = Append(execLog,
                    [stage |-> state, answer |-> answer, ret |-> sel,
                     kind |-> query_kind(stage_function(state, final_state,
                                                        final_view)),
                     cmd |-> view.cmd, header |-> view.header])
             /\ views' = deepcopy(views, state, view)
             /\ state' = IF sel = None THEN move_backward(state)
                                       ELSE move_forward(state)
    /\ UNCHANGED <<fv_dynamic_headers, final_view, final_state, pc,
                   findCalls>>
    /\ UNCHANGED notPipe

\* the loop condition of pass_through fails
PassThroughReturn ==
    /\ pc = "pass_through"
    /\ state \notin 0..(final_state - 1)
    /\ pc' = "returned"
    /\ UNCHANGED <<views, fv_dynamic_headers, final_view, state, final_state,
                   selections, execLog, findCalls>>
    /\ UNCHANGED notPipe

get_filtered_selection ==
    /\ pc = "returned"
    /\ findCalls' = Append(findCalls,
                           append_filters_to_list(<<>>, selections, views))
    /\ pc' = "filtered"
    /\ UNCHANGED <<views, fv_dynamic_headers, final_view, state, final_state,
                   selections, execLog>>
    /\ UNCHANGED notPipe

PipeNext == PassThroughStep \/ PassThroughReturn \/ get_filtered_selection

InitPipe == PipeInit /\ DupIdle /\ FmtIdle /\ ClientIdle /\ BindIdle
        /\ FifoIdle
        /\ HdrIdle
        /\ SessIdle
        /\ CallIdle

SpecPipe == InitPipe /\ [][PipeNext]_vars

(***************************************************************************)
(* Claims about the pipeline, checked under SpecPipe.                      *)
(***************************************************************************)
LastExec == execLog[Len(execLog)]

C2_SuccessIffAllSelected ==
    pc = "returned" =>
        /\ state = final_state <=>
              \A s \in 0..(final_state - 1) :
                  HasKey(selections, s) /\ Lookup(selections, s) # None
        /\ (\A i \in 1..Len(execLog) : execLog[i].answer.rc = 0)
              => state = final_state

\* C3: a stage returns the selected line when the selector exits with
\* status 0 and None when it exits with another status.
C3_StageReturnsSelection ==
    \A i \in 1..Len(execLog) :
        LET a == execLog[i].answer
        IN execLog[i].ret = IF a.rc = 0 THEN Str(<<a.stdout[1]>>) ELSE None

\* C4: a cancel at stage 0 (the selector exits with a status other than 0)
\* is the last stage that runs and leaves nothing selected, and
\* pass_through ends abandoned (below stage 0) iff stage 0 was cancelled.
C4_AbandonedIffStageZeroCancelled ==
    /\ \A i \in 1..Len(execLog) :
          (execLog[i].stage = 0 /\ execLog[i].answer.rc # 0) =>
              /\ i = Len(execLog)
              /\ state < 0
              /\ Lookup(selections, 0) = None
    /\ pc = "returned" =>
          (state < 0 <=>
              (execLog # <<>> /\ LastExec.stage = 0
                  /\ LastExec.answer.rc # 0))

\* the answers of the user in the scenario of C5
Script ==
    << [rc |-> 0, stdout |-> <<"Radiohead", NL>>],
       [rc |-> 0, stdout |-> <<"OK Computer", NL>>],
       [rc |-> 130, stdout |-> <<>>],
       [rc |-> 0, stdout |-> <<"OK Computer", NL>>],
       [rc |-> 0, stdout |-> <<"Airbag", NL>>] >>

FollowsScript ==
    /\ final_state = 3
    /\ execLog # <<>>
    /\ Len(execLog) <= Len(Script)
    /\ \A i \in 1..Len(execLog) : execLog[i].answer = Script[i]

\* C5: with stages Artist, Album, Track and the scripted answers, the one
\* find call of get_filtered_selection has the filters artist=Radiohead,
\* album=OK Computer.
C5_ScenarioFind ==
    (FollowsScript /\ pc = "filtered") =>
        findCalls = << << Str(<<"artist">>), Str(<<"Radiohead">>),
                          Str(<<"album">>), Str(<<"OK Computer">>) >> >>

(***************************************************************************)
(* views.py: adapt_find_duplicates.                                        *)
(***************************************************************************)
MaxRecords == 3

NUL == "\\x00"
\* the literal '\x0000': a NUL character followed by two zeros
DupSuffix == <<NUL, "0", "0">>

RECURSIVE Repeat(_, _)
\* s * n
Repeat(s, n) == IF n <= 0 THEN <<>> ELSE s \o Repeat(s, n - 1)

\* the display keys (fzf_string) the entry functions may have produced
FzfStrings ==
    {<<"a">>, <<"a">> \o DupSuffix, <<"a">> \o DupSuffix \o DupSuffix, <<"b">>}

\* list.count
count(l, x) == Cardinality({i \in 1..Len(l) : l[i] = x})

\* dup_strs = {x for x in fzf_strs if fzf_strs.count(x) > 1}
dup_strs(l) == {l[i] : i \in {j \in 1..Len(l) : count(l, l[j]) > 1}}

\* the orders in which a set may be iterated
Orders(S) ==
    {f \in [1..Cardinality(S) -> S] :
        \A i, j \in 1..Cardinality(S) : i # j => f[i] # f[j]}

RECURSIVE dedup_pass(_, _, _, _)
\* for i, d in enumerate(filter(lambda x: x['fzf_string'] == dstr, find_list)):
\*     d['fzf_string'] += '\x0000' * i
\* the filter is lazy: item idx is compared with dstr when the loop gets to it
dedup_pass(l, dstr, idx, i) ==
    IF idx > Len(l) THEN l
    ELSE IF l[idx] = dstr
         THEN dedup_pass([l EXCEPT ![idx] = @ \o Repeat(DupSuffix, i)],
                         dstr, idx + 1, i + 1)
         ELSE dedup_pass(l, dstr, idx + 1, i)

RECURSIVE dedup_loop(_, _)
\* for dstr in dup_strs: ...
dedup_loop(l, order) ==
    IF order = <<>> THEN l
    ELSE dedup_loop(dedup_pass(l, Head(order), 1, 0), Tail(order))

DupInit ==
    /\ \E n \in 0..MaxRecords : find_list \in [1..n -> FzfStrings]
    /\ dup_input = find_list
    /\ dup_pc = "call"

adapt_find_duplicates ==
    /\ dup_pc = "call"
    /\ \E order \in Orders(dup_strs(find_list)) :
          find_list' = dedup_loop(find_list, order)
    /\ dup_pc' = "done"
    /\ UNCHANGED dup_input
    /\ UNCHANGED notDup

DupNext == adapt_find_duplicates

InitDup == DupInit /\ PipeIdle /\ FmtIdle /\ ClientIdle /\ BindIdle
        /\ FifoIdle
        /\ HdrIdle
        /\ SessIdle
        /\ CallIdle

SpecDup == InitDup /\ [][DupNext]_vars

\* C6: after adapt_find_duplicates the number of distinct display keys
\* equals the number of records.
C6_KeysDistinct ==
    dup_pc = "done" =>
        Cardinality({find_list[i] : i \in 1..Len(find_list)}) = Len(find_list)

(***************************************************************************)
(* views.py: get_formatted_output_line.  A value is a sequence of          *)
(* characters.                                                             *)
(***************************************************************************)
MaxWidth == 16
MaxArgs == 2
MaxValLen == 6

\* the marker of the format string '{}...' as the source file holds it: the
\* three characters U+00E2, U+20AC, U+00A6
ELLIPSIS == <<"U+00E2", "U+20AC", "U+00A6">>
SPACE == " "
FZF_MARGIN == 4
MIN_ITEM_W == 4

ValueChars == <<"a", "b", "c", "d", "e", "f", "g", "h", "i", "j", "k", "l">>

\* the values: prefixes of a word of distinct letters
FmtValues == {SubSeq(ValueChars, 1, n) : n \in 0..MaxValLen}

\* x[:k] for k >= 0
SliceTo(x, k) == SubSeq(x, 1, IF k < Len(x) THEN k ELSE Len(x))

\* str.ljust
ljust(x, w) == x \o Repeat(<<SPACE>>, w - Len(x))

\* item_w: the terminal width less the margin, at least four columns per
\* value, divided by the number of values
item_width(w, n) ==
    LET okay_w == w - FZF_MARGIN
        min_w == n * MIN_ITEM_W
    IN (IF okay_w >= min_w THEN okay_w ELSE min_w) \div n

\* '{}...'.format(x[:item_w - 2]) if len(x) > (item_w - 1) else x
truncate_value(x, item_w) ==
    IF Len(x) > item_w - 1 THEN SliceTo(x, item_w - 2) \o ELLIPSIS ELSE x

RECURSIVE join_columns(_, _)
\* ''.join([x.ljust(item_w) for x in output])
join_columns(args, item_w) ==
    IF args = <<>> THEN <<>>
    ELSE ljust(truncate_value(Head(args), item_w), item_w)
             \o join_columns(Tail(args), item_w)

get_formatted_output_line(w, args) ==
    join_columns(args, item_width(w, Len(args)))

FmtInit ==
    /\ term_width \in 1..MaxWidth
    /\ \E n \in 1..MaxArgs : fmt_args \in [1..n -> FmtValues]
    /\ fmt_out = <<>>
    /\ fmt_pc = "call"

FormatLine ==
    /\ fmt_pc = "call"
    /\ fmt_out' = get_formatted_output_line(term_width, fmt_args)
    /\ fmt_pc' = "done"
    /\ UNCHANGED <<term_width, fmt_args>>
    /\ UNCHANGED notFmt

FmtNext == FormatLine

InitFmt == FmtInit /\ PipeIdle /\ DupIdle /\ ClientIdle /\ BindIdle
        /\ FifoIdle
        /\ HdrIdle
        /\ SessIdle
        /\ CallIdle

SpecFmt == InitFmt /\ [][FmtNext]_vars

\* columnWidth = max(width - 4, 4N) div N
ColumnWidth ==
    LET n == Len(fmt_args)
        a == term_width - 4
        b == 4 * n
    IN (IF a > b THEN a ELSE b) \div n

Segment(k) == SubSeq(fmt_out, (k - 1) * ColumnWidth + 1, k * ColumnWidth)

\* C8: each of the N values gets a segment of exactly columnWidth
\* characters, so the line has N * columnWidth characters; a value longer
\* than columnWidth - 1 is shown as a prefix of it followed by one ellipsis
\* marker, within columnWidth - 1 characters, a shorter one is shown whole;
\* the rest of the segment is padding, at least one space.
C8_ColumnFormat ==
    fmt_pc = "done" =>
        /\ Len(fmt_out) = Len(fmt_args) * ColumnWidth
        /\ \A k \in 1..Len(fmt_args) :
              LET v == fmt_args[k]
                  seg == Segment(k)
              IN /\ seg[ColumnWidth] = SPACE
                 /\ IF Len(v) > ColumnWidth - 1
                    THEN \E p \in 0..Len(v) :
                            /\ p + Len(ELLIPSIS) <= ColumnWidth - 1
                            /\ seg = ljust(SubSeq(v, 1, p) \o ELLIPSIS,
                                           ColumnWidth)
                    ELSE seg = ljust(v, ColumnWidth)

(***************************************************************************)
(* client.py: find and search with required_tags.  A record is a function  *)
(* from its keys to its values.                                            *)
(***************************************************************************)
MaxUpstream == 2
MaxCalls == 2

\* Python's None as a tag: view_settings.sort_field when no sort was asked
NoneTag == "None"
SortFields == {NoneTag, "date"}

\* required_tags as track_view and singles_view pass it
RequiredTagTuples ==
    {<<"track", "title", sf>> : sf \in SortFields}
        \cup {<<"artist", "album", "title", sf>> : sf \in SortFields}

FindRequests ==
    {NoTags} \cup {[given |-> TRUE, tags |-> t] : t \in RequiredTagTuples}

\* the tags a song may carry upstream
UpstreamKeys == {"file", "title", "track"}
UpstreamRecords == UNION {[ks -> {"v"}] : ks \in SUBSET UpstreamKeys}
UpstreamResults ==
    UNION {[1..n -> UpstreamRecords] : n \in 0..MaxUpstream}

Range(t) == {t[i] : i \in 1..Len(t)}

\* bool(self.required_tags)
truthy(rt) == rt.given /\ rt.tags # <<>>

ensure_tags_first_only(title, rt) ==
    [k \in DOMAIN title \cup {rt.tags[1]} |->
        IF k \in DOMAIN title THEN title[k] ELSE ""]

\* for tag in filter(lambda x: x not in title.keys(), self.required_tags):
\*     title[tag] = ""
ensure_tags(title, rt) ==
    [k \in DOMAIN title \cup Range(rt.tags) |->
        IF k \in DOMAIN title THEN title[k] ELSE ""]

\* the end of add_required_tags.wrapped
add_required_tags_result(match, rt) ==
    IF truthy(rt) THEN [i \in 1..Len(match) |-> ensure_tags(match[i], rt)]
    ELSE match

\* ConnectClient.__init__: self.required_tags = False
ClientInit ==
    /\ required_tags = NoTags
    /\ find_kind = "find"
    /\ find_req = NoTags
    /\ find_match = <<>>
    /\ find_ret = <<>>
    /\ find_calls = 0
    /\ client_pc = "ready"
    /\ lf_pc = "idle"
    /\ lf_ret = ""

\* find or search is called: self.required_tags = kwargs.pop(...)
FindEnter ==
    /\ client_pc \in {"ready", "returned"}
    /\ find_calls < MaxCalls
    /\ \E req \in FindRequests, kind \in {"find", "search"} :
          /\ find_req' = req
          /\ find_kind' = kind
          /\ required_tags' = req
    /\ find_calls' = find_calls + 1
    /\ client_pc' = "in_find"
    \* nothing was queried or returned yet in this call
    /\ find_match' = <<>>
    /\ find_ret' = <<>>
    /\ UNCHANGED <<lf_pc, lf_ret>>
    /\ UNCHANGED notClient

\* match = f(self, *args, **kwargs) and the return of the wrapper
FindReturn ==
    /\ client_pc = "in_find"
    /\ \E match \in UpstreamResults :
          /\ find_match' = match
          /\ find_ret' = add_required_tags_result(match, required_tags)
    /\ client_pc' = "returned"
    /\ UNCHANGED <<required_tags, find_kind, find_req, find_calls, lf_pc,
                   lf_ret>>
    /\ UNCHANGED notClient

ClientNext == FindEnter \/ FindReturn

InitClient == ClientInit /\ PipeIdle /\ DupIdle /\ FmtIdle /\ BindIdle
        /\ FifoIdle
        /\ HdrIdle
        /\ SessIdle
        /\ CallIdle

SpecClient == InitClient /\ [][ClientNext]_vars

MaxBinds == 2

COLON == ":"
COMMA == ","
BACKSLASH == "\\"
LPAREN == "("
RPAREN == ")"
AMP == "&"
MFP == "mfp"
QUOTE == "'"

\* self.fifo
FIFO == <<"/tmp/ch">>

\* the index of the first c in s at or after position from, 0 if there is none
IndexFrom(s, c, from) ==
    IF \E i \in from..Len(s) : s[i] = c
    THEN CHOOSE i \in from..Len(s) :
             s[i] = c /\ \A j \in from..(i - 1) : s[j] # c
    ELSE 0

RECURSIVE JoinWith(_, _)
\* sep.join(parts)
JoinWith(parts, sep) ==
    IF parts = <<>> THEN <<>>
    ELSE IF Len(parts) = 1 THEN parts[1]
    ELSE parts[1] \o sep \o JoinWith(Tail(parts), sep)

RECURSIVE split_unescaped(_, _, _)
\* re.split(r'(?<!\\),', bind_str): cur is the piece being read
split_unescaped(s, i, cur) ==
    IF i > Len(s) THEN <<cur>>
    ELSE IF s[i] = COMMA /\ (i = 1 \/ s[i - 1] # BACKSLASH)
         THEN <<cur>> \o split_unescaped(s, i + 1, <<>>)
         ELSE split_unescaped(s, i + 1, Append(cur, s[i]))

RECURSIVE split_amp(_, _, _)
\* cmd_str.split('&&')
split_amp(s, i, cur) ==
    IF i > Len(s) THEN <<cur>>
    ELSE IF s[i] = AMP /\ i < Len(s) /\ s[i + 1] = AMP
         THEN <<cur>> \o split_amp(s, i + 2, <<>>)
         ELSE split_amp(s, i + 1, Append(cur, s[i]))

\* '&&' in cmd
has_amp(s) == \E i \in 1..(Len(s) - 1) : s[i] = AMP /\ s[i + 1] = AMP

\* self.cmd_temp.format(x): 'echo {} > ' + self.fifo
cmd_temp(x) == <<"echo", SPACE>> \o x \o <<SPACE, ">", SPACE>> \o FIFO

\* self.exec_temp.format(cmd): 'execute#{}#'
exec_temp(cmd) == <<"execute", "#">> \o cmd \o <<"#">>

get_multi_cmd_unordered(cmd_str) ==
    LET cmds == split_amp(cmd_str, 1, <<>>)
        n == Len(cmds)
    IN JoinWith([k \in 1..n |-> cmd_temp(strip(cmds[n + 1 - k], SPACE))],
                <<SPACE, AMP, AMP, SPACE>>)

\* one echo command per part of cmd_str, joined by ' && '
get_multi_cmd(cmd_str) ==
    LET cmds == split_amp(cmd_str, 1, <<>>)
    IN JoinWith([k \in 1..Len(cmds) |-> cmd_temp(strip(cmds[k], SPACE))],
                <<SPACE, AMP, AMP, SPACE>>)

\* MFP_BIND_RE.match(bind_str): ([^:]+):(mfp\([^\)]*\)) at the start of the
\* string; group 1 is the key, body is what MFP_KB_RE takes out of group 2
mfp_bind_match(b) ==
    LET c == IndexFrom(b, COLON, 1)
        r == IF c = 0 THEN 0 ELSE IndexFrom(b, RPAREN, c + 3)
        ok == /\ c > 1
              /\ Len(b) >= c + 3
              /\ b[c + 1] = MFP
              /\ b[c + 2] = LPAREN
              /\ r > 0
    IN [ok |-> ok,
        key |-> IF ok THEN SubSeq(b, 1, c - 1) ELSE <<>>,
        body |-> IF ok THEN SubSeq(b, c + 3, r - 1) ELSE <<>>]

\* KeyBindings.process_match, for one match
process_match(d, key, body) ==
    Assign(d, key,
           exec_temp(IF has_amp(body) THEN get_multi_cmd(body)
                                      ELSE cmd_temp(body)))

process_bind_first_wins(d, b) ==
    LET m == mfp_bind_match(b)
        c == IndexFrom(b, COLON, 1)
        key == IF m.ok THEN m.key ELSE SubSeq(b, 1, c - 1)
    IN IF c = 0 \/ HasKey(d, key) THEN d
       ELSE IF m.ok THEN process_match(d, m.key, m.body)
       ELSE Assign(d, key, SubSeq(b, c + 1, Len(b)))

\* KeyBindings.process_bind, for one piece of the bind string
process_bind(d, b) ==
    LET m == mfp_bind_match(b)
        c == IndexFrom(b, COLON, 1)
    IN IF m.ok THEN process_match(d, m.key, m.body)
       ELSE IF c = 0 THEN d   \* IndexError: not a key binding, do nothing
       ELSE Assign(d, SubSeq(b, 1, c - 1), SubSeq(b, c + 1, Len(b)))

RECURSIVE process_all(_, _)
\* for b in re.split(...): processor.send(b)
process_all(d, bs) ==
    IF bs = <<>> THEN d ELSE process_all(process_bind(d, Head(bs)), Tail(bs))

\* ':'.join(t) for t in self.bind_dict.items()
pairs_of(d) == [i \in 1..Len(d) |-> d[i].key \o <<COLON>> \o d[i].value]

\* the tuple built at the end of populate_bind_tuple
bind_tuple_of(d) ==
    IF d # <<>> THEN << <<"--bind=">> \o JoinWith(pairs_of(d), <<COMMA>>) >>
    ELSE <<>>

(***************************************************************************)
(* The bindings a user writes.  kind "native": key:action; kind "mfp":     *)
(* key:mfp(body), the body being parts joined by &&; kind "bare": a piece  *)
(* without a colon.                                                        *)
(***************************************************************************)
BindKeys == {<<"ctrl-a">>, <<"ctrl-b">>}

NativeActions ==
    { <<"x-1">>,
      <<>>,
      <<"x-1", BACKSLASH, COMMA, "x-2">>,
      <<MFP, LPAREN, "cmd-1", RPAREN, "x-1">> }

MfpParts ==
    { << <<"cmd-1">> >>,
      << <<SPACE, "cmd-2">> >>,
      << <<"cmd-1", SPACE>>, <<SPACE, "cmd-2">> >>,
      << <<>>, <<>> >> }

BindItems ==
    {[kind |-> "native", key |-> k, action |-> a, parts |-> <<>>] :
        k \in BindKeys, a \in NativeActions}
    \cup {[kind |-> "native", key |-> <<>>, action |-> <<"x-1">>,
           parts |-> <<>>]}
    \cup {[kind |-> "mfp", key |-> k, action |-> <<>>, parts |-> ps] :
            k \in BindKeys, ps \in MfpParts}
    \cup {[kind |-> "bare", key |-> k, action |-> <<>>, parts |-> <<>>] :
            k \in BindKeys \cup {<<>>}}

MfpBody(item) == JoinWith(item.parts, <<AMP, AMP>>)

\* the text of one binding
Render(item) ==
    CASE item.kind = "native" -> item.key \o <<COLON>> \o item.action
      [] item.kind = "mfp" ->
            item.key \o <<COLON, MFP, LPAREN>> \o MfpBody(item) \o <<RPAREN>>
      [] OTHER -> item.key

BindInit ==
    /\ \/ /\ bind_given = TRUE
          /\ \E n \in 1..MaxBinds : bind_items \in [1..n -> BindItems]
       \/ /\ bind_given = FALSE
          /\ bind_items = <<>>
    /\ bind_str = JoinWith([i \in 1..Len(bind_items) |-> Render(bind_items[i])],
                           <<COMMA>>)
    /\ bind_dict = <<>>
    /\ bind_tuple = <<>>
    /\ keybinds = <<>>
    /\ kb_pc = "call"

\* KeyBindings.__init__: populate_bind_tuple(args); re.split raises
\* TypeError when args is None
populate_bind_tuple ==
    /\ kb_pc = "call"
    /\ IF bind_given
       THEN LET d == process_all(<<>>, split_unescaped(bind_str, 1, <<>>))
            IN /\ bind_dict' = d
               /\ bind_tuple' = bind_tuple_of(d)
               /\ kb_pc' = "done"
       ELSE /\ kb_pc' = "TypeError"
            /\ UNCHANGED <<bind_dict, bind_tuple>>
    /\ UNCHANGED <<bind_items, bind_given, bind_str, keybinds>>
    /\ UNCHANGED notBind

RECURSIVE escape_backslash(_)
\* repr of a str doubles each backslash
escape_backslash(x) ==
    IF x = <<>> THEN <<>>
    ELSE (IF Head(x) = BACKSLASH THEN <<BACKSLASH, BACKSLASH>> ELSE <<Head(x)>>)
             \o escape_backslash(Tail(x))

\* repr(x) of a str without quotes in it
repr_str(x) == <<QUOTE>> \o escape_backslash(x) \o <<QUOTE>>

\* KeyBindings.__repr__: repr(self.bind_tuple), a tuple of at most one str
repr_tuple(t) ==
    IF t = <<>> THEN <<LPAREN, RPAREN>>
    ELSE <<LPAREN>> \o repr_str(t[1]) \o <<COMMA, RPAREN>>

\* tuple(x) of a str: one element per character (here: per token; a word
\* token stands for one element per character of the word)
tuple_of_str(x) == [i \in 1..Len(x) |-> <<x[i]>>]

\* ViewSettings.__init__: self.keybinds = tuple(str(keybinds)); KeyBindings
\* defines __repr__ and no __str__
ViewSettings_init ==
    /\ kb_pc = "done"
    /\ keybinds' = tuple_of_str(repr_tuple(bind_tuple))
    /\ kb_pc' = "settings"
    /\ UNCHANGED <<bind_items, bind_given, bind_str, bind_dict, bind_tuple>>
    /\ UNCHANGED notBind

BindNext == populate_bind_tuple \/ ViewSettings_init

InitBind == BindInit /\ PipeIdle /\ DupIdle /\ FmtIdle /\ ClientIdle
        /\ FifoIdle
        /\ HdrIdle
        /\ SessIdle
        /\ CallIdle

SpecBind == InitBind /\ [][BindNext]_vars

(***************************************************************************)
(* Claims about KeyBindings, checked under SpecBind.                       *)
(***************************************************************************)
\* the one string of the tuple, the empty string if the tuple is empty
BindOut == IF bind_tuple = <<>> THEN <<>> ELSE bind_tuple[1]

\* the output holds the binding `pair`: after "--bind=" or a comma, and up
\* to a comma or the end
HasBinding(pair) ==
    \E p \in 2..(Len(BindOut) - Len(pair) + 1) :
        /\ SubSeq(BindOut, p, p + Len(pair) - 1) = pair
        /\ (p = 2 /\ BindOut[1] = "--bind=") \/ BindOut[p - 1] = COMMA
        /\ p + Len(pair) - 1 = Len(BindOut) \/ BindOut[p + Len(pair)] = COMMA

\* the output holds a binding of `key` to an execute directive that embeds
\* `fragment`
HasExecuteEmbedding(key, fragment) ==
    LET head == key \o <<COLON, "execute", "#">>
    IN \E p \in 2..Len(BindOut), q \in 2..Len(BindOut) :
          /\ p + Len(head) <= q
          /\ q + Len(fragment) <= Len(BindOut)
          /\ (p = 2 /\ BindOut[1] = "--bind=") \/ BindOut[p - 1] = COMMA
          /\ SubSeq(BindOut, p, p + Len(head) - 1) = head
          /\ SubSeq(BindOut, q, q + Len(fragment) - 1) = fragment
          /\ \A j \in (p + Len(head))..(q + Len(fragment) - 1) :
                BindOut[j] # "#"

EchoInto(body) == <<"echo", SPACE>> \o body \o <<SPACE, ">", SPACE>> \o FIFO

\* the action begins with a group mfp(...)
BeginsWithMfpGroup(a) ==
    /\ Len(a) >= 3
    /\ a[1] = MFP
    /\ a[2] = LPAREN
    /\ \E j \in 3..Len(a) : a[j] = RPAREN

\* what the claim asks of one binding: a pair whose action is not an
\* mfp(...) group is in the output verbatim; a key bound to mfp(body) is
\* bound to an execute directive embedding `echo body > <channel path>`
\* (for a body chained with &&, one such echo per trimmed part)
BindingCompiled(it) ==
    /\ (it.kind = "native" /\ ~ BeginsWithMfpGroup(it.action))
          => HasBinding(Render(it))
    /\ (it.kind = "mfp" /\ Len(it.parts) = 1)
          => HasExecuteEmbedding(it.key, EchoInto(MfpBody(it)))
    /\ (it.kind = "mfp" /\ Len(it.parts) > 1)
          => \A k \in 1..Len(it.parts) :
                HasExecuteEmbedding(it.key,
                                    EchoInto(strip(it.parts[k], SPACE)))

\* C9 (as stated): the output holds every non-mfp key:action pair verbatim
\* and, for every key bound to mfp(body), a binding of that key to an
\* execute directive embedding `echo body > <channel path>`.
C9_EveryPairCompiled ==
    kb_pc = "done" =>
        \A i \in 1..Len(bind_items) : BindingCompiled(bind_items[i])

\* no later binding of the specification sets the key of binding i
IsLastOfKey(i) ==
    \A j \in (i + 1)..Len(bind_items) :
        bind_items[j].kind = "bare" \/ bind_items[j].key # bind_items[i].key

\* C9 (amended): the same for every binding that is the last one of its
\* key in the specification: a later binding of a key replaces the earlier
\* one.
C9_LastBindingCompiled ==
    kb_pc = "done" =>
        \A i \in 1..Len(bind_items) :
            IsLastOfKey(i) => BindingCompiled(bind_items[i])

C9_MixedExample ==
    /\ kb_pc = "done"
    /\ bind_str = <<"ctrl-a", COLON, MFP, LPAREN, "cmd-1", RPAREN, COMMA,
                    "ctrl-b", COLON, "x-1">>
    /\ bind_tuple = << <<"--bind=", "ctrl-a", COLON, "execute", "#", "echo",
                         SPACE, "cmd-1", SPACE, ">", SPACE, "/tmp/ch", "#",
                         COMMA, "ctrl-b", COLON, "x-1">> >>

\* C10: mfp(part-1 && part-2 && ...) compiles to one `echo part > <channel
\* path>` per trimmed part, joined by " && " in the order of the parts.
C10_ChainedCompile ==
    kb_pc = "done" =>
        \A i \in 1..Len(bind_items) :
            LET it == bind_items[i]
            IN (it.kind = "mfp" /\ Len(it.parts) >= 2 /\ IsLastOfKey(i)) =>
                  HasBinding(
                      it.key \o <<COLON, "execute", "#">>
                          \o JoinWith([k \in 1..Len(it.parts) |->
                                          EchoInto(strip(it.parts[k], SPACE))],
                                      <<SPACE, AMP, AMP, SPACE>>)
                          \o <<"#">>)

C10_ChainedExample ==
    /\ kb_pc = "done"
    /\ Len(bind_items) = 2
    /\ bind_items[2].kind = "mfp"
    /\ bind_items[2].parts = << <<"cmd-1", SPACE>>, <<SPACE, "cmd-2">> >>
    /\ HasExecuteEmbedding(
           bind_items[2].key,
           EchoInto(<<"cmd-1">>) \o <<SPACE, AMP, AMP, SPACE>>
               \o EchoInto(<<"cmd-2">>))

\* the output holds a binding that starts with `key` and a colon
OutputBindsKey(key) ==
    LET head == key \o <<COLON>>
    IN \E p \in 2..(Len(BindOut) - Len(head) + 1) :
          /\ SubSeq(BindOut, p, p + Len(head) - 1) = head
          /\ (p = 2 /\ BindOut[1] = "--bind=") \/ BindOut[p - 1] = COMMA

\* a binding with an empty key or with an action that is empty once && and
\* whitespace are stripped: "ctrl-a:", ":x", "ctrl-a:mfp(&&)"
Malformed(it) ==
    \/ it.kind = "native" /\ (it.key = <<>> \/ strip(it.action, SPACE) = <<>>)
    \/ it.kind = "mfp"
          /\ \/ it.key = <<>>
             \/ \A k \in 1..Len(it.parts) : strip(it.parts[k], SPACE) = <<>>

\* C11: a malformed binding is dropped: unless a well-formed binding of the
\* specification sets the same key, the compiled output has no binding of
\* its key.
C11_MalformedDropped ==
    kb_pc = "done" =>
        \A i \in 1..Len(bind_items) :
            (/\ Malformed(bind_items[i])
             /\ \A j \in 1..Len(bind_items) :
                   (bind_items[j].kind # "bare"
                        /\ bind_items[j].key = bind_items[i].key)
                      => Malformed(bind_items[j]))
               => ~ OutputBindsKey(bind_items[i].key)

\* C12: a KeyBindings without bindings has length 0 and puts no argument
\* into ViewSettings.keybinds; one with bindings puts exactly one argument
\* there, which starts with "--bind=".
C12_KeybindsArgument ==
    /\ kb_pc \in {"done", "settings"} =>
          (bind_dict = <<>> <=> Len(bind_tuple) = 0)
    /\ kb_pc = "settings" =>
          IF bind_dict = <<>>
          THEN keybinds = <<>>
          ELSE Len(keybinds) = 1 /\ Head(keybinds[1]) = "--bind="

(***************************************************************************)
(* client.py: always_connect around catch_command_error around a command   *)
(* of the mpd client, as ensure_connect installs it.  What the command and *)
(* instance.connect() do is an input.                                      *)
(***************************************************************************)
\* some of the commands self.commands() lists
DecoratedCommands == {"find", "list", "play", "status"}

\* the outcomes of catch_command_error(f): a value (None included), a
\* ConnectionError, or the UserError made from a CommandError
CallOutcomes ==
    {[kind |-> "value", v |-> None],
     [kind |-> "value", v |-> Str(<<"OK">>)],
     [kind |-> "ConnectionError", v |-> None],
     [kind |-> "UserError", v |-> None]}

\* the number timeout is compared with
RETRY_LIMIT == 5

retries_left_off_by_one(timeout) == ~ (timeout > RETRY_LIMIT + 1)

\* `if timeout > 5: raise e`, else reconnect
retries_left(timeout) == ~ (timeout > RETRY_LIMIT)

CallInit ==
    /\ ac_cmd \in DecoratedCommands
    /\ ac_timeout = 0
    /\ ac_v = None
    /\ ac_last = None
    /\ ac_attempts = 0
    /\ ac_reconnects = 0
    /\ ac_exc = ""
    /\ ac_pc = "try"

\* try: v = f(*args, **kwargs); break
always_connect_try ==
    /\ ac_pc = "try"
    /\ ac_v = None                       \* while v is None
    /\ \E out \in CallOutcomes :
          /\ ac_attempts' = ac_attempts + 1
          /\ ac_last' = out.v
          /\ CASE out.kind = "value" ->
                    ac_v' = out.v /\ ac_pc' = "returned" /\ ac_exc' = ac_exc
               [] out.kind = "ConnectionError" ->
                    ac_v' = ac_v /\ ac_pc' = "except" /\ ac_exc' = ac_exc
               [] OTHER ->
                    ac_v' = ac_v /\ ac_pc' = "raised" /\ ac_exc' = "UserError"
    /\ UNCHANGED <<ac_cmd, ac_timeout, ac_reconnects>>
    /\ UNCHANGED notCall

\* except mpd.base.ConnectionError as e
always_connect_except ==
    /\ ac_pc = "except"
    /\ IF retries_left(ac_timeout)
       THEN ac_pc' = "connect" /\ ac_exc' = ac_exc
       ELSE ac_pc' = "raised" /\ ac_exc' = "ConnectionError"
    /\ UNCHANGED <<ac_cmd, ac_timeout, ac_v, ac_last, ac_attempts,
                   ac_reconnects>>
    /\ UNCHANGED notCall

\* instance.connect(); timeout += 1. ConnectClient.connect raises UserError
\* when the server refuses the connection
always_connect_reconnect ==
    /\ ac_pc = "connect"
    /\ ac_reconnects' = ac_reconnects + 1
    /\ \E refused \in BOOLEAN :
          IF refused
          THEN /\ ac_pc' = "raised"
               /\ ac_exc' = "UserError"
               /\ ac_timeout' = ac_timeout
          ELSE /\ ac_pc' = "try"
               /\ ac_exc' = ac_exc
               /\ ac_timeout' = ac_timeout + 1
    /\ UNCHANGED <<ac_cmd, ac_v, ac_last, ac_attempts>>
    /\ UNCHANGED notCall

CallNext ==
    \/ always_connect_try
    \/ always_connect_except
    \/ always_connect_reconnect

InitCall == CallInit /\ PipeIdle /\ DupIdle /\ FmtIdle /\ ClientIdle
        /\ FifoIdle
        /\ HdrIdle
        /\ SessIdle
        /\ BindIdle

SpecCall == InitCall /\ [][CallNext]_vars

\* C17: the wrapped call makes one attempt per reconnect and one first
\* attempt, at most 6 reconnects and 7 attempts; when every attempt ends in
\* a connection error it raises that error after the 7th; the first attempt
\* that returns ends the call with the value it returned, None included.
C17_BoundedRetry ==
    /\ ac_reconnects <= 6
    /\ ac_attempts <= 7
    /\ ac_attempts <= ac_reconnects + 1
    /\ (ac_pc = "raised" /\ ac_exc = "ConnectionError") =>
          (ac_attempts = 7 /\ ac_reconnects = 6)
    /\ ac_pc = "returned" =>
          (ac_v = ac_last /\ ac_attempts = ac_reconnects + 1
              /\ ~ ENABLED CallNext)

C17_BudgetExhausted ==
    /\ ac_pc = "raised"
    /\ ac_exc = "ConnectionError"
    /\ ac_attempts = 7
    /\ ac_reconnects = 6

(***************************************************************************)
(* One run of the program: cli.py __main__ and process_cli_args, the       *)
(* ConnectClient session with its named pipe, and the listener thread      *)
(* that reads the pipe (ConnectClient.receive_from_fifo).  What the server,*)
(* the selector and the writers of the pipe do is an input.                *)
(***************************************************************************)
MaxMessages == 2

DQ == "\""

\* the word the docstring of receive_from_fifo names as the stop message
SENTINEL == <<"NULL">>

\* what `echo ... > fifo` can put into the pipe
Messages ==
    { <<"play", SPACE, "1", NL>>,
      <<NL>>,
      <<"nonsense", NL>>,
      <<"fifo", NL>>,
      <<DQ, "play", NL>>,
      SENTINEL \o <<NL>> }

RECURSIVE shlex_scan(_, _, _, _, _, _)
\* shlex.split(msg): words are separated by spaces and newlines, double
\* quotes group;
\* a quote that is not closed raises ValueError
shlex_scan(s, i, cur, started, inq, out) ==
    IF i > Len(s)
    THEN IF inq THEN [ok |-> FALSE, words |-> <<>>]
         ELSE [ok |-> TRUE,
               words |-> IF started THEN Append(out, cur) ELSE out]
    ELSE IF s[i] = DQ
         THEN shlex_scan(s, i + 1, cur, TRUE, ~ inq, out)
    ELSE IF s[i] \in {SPACE, NL} /\ ~ inq
         THEN shlex_scan(s, i + 1, <<>>, FALSE, FALSE,
                         IF started THEN Append(out, cur) ELSE out)
    ELSE shlex_scan(s, i + 1, Append(cur, s[i]), TRUE, inq, out)

shlex_split(s) == shlex_scan(s, 1, <<>>, FALSE, FALSE, <<>>)

\* getattr(self, cmd): a command of the mpd client, another attribute of
\* the object (a str such as self.fifo), or no attribute at all
attr_kind(cmd) ==
    IF cmd \in DecoratedCommands THEN "command"
    ELSE IF cmd \in {"fifo", "addr"} THEN "attribute"
    ELSE "missing"

\* how a command sent to the server can end, under always_connect: with a
\* value, rejected by the server, or with the connection lost for good
ServerOutcomes == {"value", "CommandError", "ConnectionError"}

catch_command_error_passes(out) == out

\* except mpd.CommandError as e: raise UserError(...)
catch_command_error(out) ==
    IF out = "CommandError" THEN "UserError" ELSE out

register_nothing(fns) == fns

\* atexit.register(os.remove, self.fifo)
register_fifo_removal(fns) == Append(fns, "remove_fifo")

\* mfp_cmds[base_cmd] is run_with_args for find, search and list
uses_view(cmd, bare) == ~ bare /\ cmd \in {"find", "search", "list"}

SessInit ==
    /\ cli_cmd \in {"find", "list", "status"}
    /\ cli_bare \in BOOLEAN
    /\ cli_bind \in BOOLEAN
    /\ fifo_exists = FALSE
    /\ log_exists = FALSE
    /\ atexit_fns = <<>>
    /\ conn_users = {}
    /\ main_pc = "start"
    /\ main_exc = ""
    /\ query_out = ""
    /\ fzf_out = ""
    /\ fzf_rc = -1
    /\ view_sel = None
    /\ reported = ""
    /\ exit_code = -1
    /\ listener_pc = "unstarted"
    /\ listener_exc = ""
    /\ msg = <<>>
    /\ received = <<>>
    /\ dispatched = <<>>
    /\ warnings = <<>>

mainVars == <<main_pc, main_exc, query_out, fzf_out, fzf_rc, view_sel,
              reported, exit_code>>

listenerVars == <<listener_pc, listener_exc, msg, received, dispatched,
                  warnings>>

cliVars == <<cli_cmd, cli_bare, cli_bind>>

\* ConnectClient.__init__ up to ensure_connect: the pipe is made and its
\* removal registered
ConnectClient_init ==
    /\ main_pc = "start"
    /\ fifo_exists' = TRUE
    /\ atexit_fns' = register_fifo_removal(atexit_fns)
    /\ main_pc' = "ensure_connect"
    /\ UNCHANGED <<main_exc, query_out, fzf_out, fzf_rc, view_sel, reported,
                   exit_code>>
    /\ UNCHANGED <<cliVars, listenerVars, log_exists, conn_users>>
    /\ UNCHANGED notSess

\* ensure_connect: connect() raises UserError when the server refuses
ensure_connect ==
    /\ main_pc = "ensure_connect"
    /\ \E refused \in BOOLEAN :
          IF refused
          THEN main_exc' = "UserError" /\ main_pc' = "raised"
          ELSE main_exc' = main_exc /\ main_pc' = "process_cli_args"
    /\ UNCHANGED <<query_out, fzf_out, fzf_rc, view_sel, reported, exit_code>>
    /\ UNCHANGED <<cliVars, listenerVars, fifo_exists, log_exists, atexit_fns,
                   conn_users>>
    /\ UNCHANGED notSess

\* process_cli_args after the client is made; run_with_args starts the
\* listener and builds the KeyBindings (TypeError without --bind)
process_cli_args ==
    /\ main_pc = "process_cli_args"
    /\ IF uses_view(cli_cmd, cli_bare)
       THEN /\ listener_pc' = "started"
            /\ IF cli_bind
               THEN main_exc' = main_exc /\ main_pc' = "query"
               ELSE main_exc' = "TypeError" /\ main_pc' = "raised"
       ELSE /\ listener_pc' = listener_pc
            /\ main_exc' = main_exc
            /\ main_pc' = "query"
    /\ UNCHANGED <<query_out, fzf_out, fzf_rc, view_sel, reported, exit_code>>
    /\ UNCHANGED <<cliVars, listener_exc, msg, received, dispatched, warnings,
                   fifo_exists, log_exists, atexit_fns, conn_users>>
    /\ UNCHANGED notSess

\* the main flow sends its command (mpc.find, mpc.list, run_mpd_command)
main_command_begin ==
    /\ main_pc = "query"
    /\ conn_users' = conn_users \cup {"main"}
    /\ main_pc' = "in_query"
    /\ UNCHANGED <<main_exc, query_out, fzf_out, fzf_rc, view_sel, reported,
                   exit_code>>
    /\ UNCHANGED <<cliVars, listenerVars, fifo_exists, log_exists, atexit_fns>>
    /\ UNCHANGED notSess

\* the command of the main flow returns or raises
main_command_end ==
    /\ main_pc = "in_query"
    /\ conn_users' = conn_users \ {"main"}
    /\ \E out \in ServerOutcomes :
          /\ query_out' = out
          /\ IF catch_command_error(out) = "value"
             THEN /\ main_exc' = main_exc
                  /\ main_pc' = IF uses_view(cli_cmd, cli_bare) THEN "fzf"
                                ELSE "return"
             ELSE /\ main_exc' = catch_command_error(out)
                  /\ main_pc' = "raised"
    /\ UNCHANGED <<fzf_out, fzf_rc, view_sel, reported, exit_code>>
    /\ UNCHANGED <<cliVars, listenerVars, fifo_exists, log_exists, atexit_fns>>
    /\ UNCHANGED notSess

\* what starting the selector can do: Popen raises FileNotFoundError (it is
\* called before the try statement), the user interrupts, or fzf runs
SelectorOutcomes == {"FileNotFoundError", "KeyboardInterrupt", "ran"}

\* create_view through pipe_to_fzf, inside the view function; run_with_args
\* does not use what the view function returns
pipe_to_fzf ==
    /\ main_pc = "fzf"
    /\ \E o \in SelectorOutcomes :
          /\ fzf_out' = o
          /\ IF o = "ran"
             THEN \E answer \in FzfAnswers :
                     /\ fzf_rc' = answer.rc
                     /\ view_sel' = create_view(answer)
                     /\ main_exc' = main_exc
                     /\ main_pc' = "return"
             ELSE /\ main_exc' = o
                  /\ main_pc' = "raised"
                  /\ UNCHANGED <<fzf_rc, view_sel>>
    /\ UNCHANGED <<query_out, reported, exit_code>>
    /\ UNCHANGED <<cliVars, listenerVars, fifo_exists, log_exists, atexit_fns,
                   conn_users>>
    /\ UNCHANGED notSess

\* process_cli_args returns and the interpreter ends normally
main_return ==
    /\ main_pc = "return"
    /\ exit_code' = 0
    /\ main_pc' = "exiting"
    /\ UNCHANGED <<main_exc, query_out, fzf_out, fzf_rc, view_sel, reported>>
    /\ UNCHANGED <<cliVars, listenerVars, fifo_exists, log_exists, atexit_fns,
                   conn_users>>
    /\ UNCHANGED notSess

\* __main__: except UserError prints the error, except KeyboardInterrupt
\* prints nothing, both sys.exit(1); any other exception ends the
\* interpreter with a traceback and status 1
main_except ==
    /\ main_pc = "raised"
    /\ reported' = CASE main_exc = "UserError" -> "Error"
                     [] main_exc = "KeyboardInterrupt" -> ""
                     [] OTHER -> "Traceback"
    /\ exit_code' = 1
    /\ main_pc' = "exiting"
    /\ UNCHANGED <<main_exc, query_out, fzf_out, fzf_rc, view_sel>>
    /\ UNCHANGED <<cliVars, listenerVars, fifo_exists, log_exists, atexit_fns,
                   conn_users>>
    /\ UNCHANGED notSess

\* the interpreter runs the atexit callbacks and the process ends
run_exitfuncs ==
    /\ main_pc = "exiting"
    /\ fifo_exists' =
          (fifo_exists
              /\ ~ \E i \in 1..Len(atexit_fns) : atexit_fns[i] = "remove_fifo")
    /\ log_exists' =
          (log_exists
              /\ ~ \E i \in 1..Len(atexit_fns) : atexit_fns[i] = "remove_log")
    /\ main_pc' = "exited"
    /\ UNCHANGED <<main_exc, query_out, fzf_out, fzf_rc, view_sel, reported,
                   exit_code>>
    /\ UNCHANGED <<cliVars, listenerVars, atexit_fns, conn_users>>
    /\ UNCHANGED notSess

\* receive_from_fifo: get_fifo_logger makes the log file and registers its
\* removal
get_fifo_logger ==
    /\ listener_pc = "started"
    /\ main_pc # "exited"
    /\ log_exists' = TRUE
    /\ atexit_fns' = Append(atexit_fns, "remove_log")
    /\ listener_pc' = "waiting"
    /\ UNCHANGED <<listener_exc, msg, received, dispatched, warnings>>
    /\ UNCHANGED <<cliVars, mainVars, fifo_exists, conn_users>>
    /\ UNCHANGED notSess

\* with open(self.fifo) as fifo: msg = fifo.read(); msg = msg.strip("\n")
receive_from_fifo_read ==
    /\ listener_pc = "waiting"
    /\ main_pc # "exited"
    /\ fifo_exists
    /\ Len(received) < MaxMessages
    /\ \E m \in Messages :
          /\ msg' = strip(m, NL)
          /\ received' = Append(received, strip(m, NL))
    /\ listener_pc' = "received"
    /\ UNCHANGED <<listener_exc, dispatched, warnings>>
    /\ UNCHANGED <<cliVars, mainVars, fifo_exists, log_exists, atexit_fns,
                   conn_users>>
    /\ UNCHANGED notSess

\* self.run_mpd_command(shlex.split(msg)) up to the call of the command;
\* only UserError is caught by receive_from_fifo
receive_from_fifo_dispatch ==
    /\ listener_pc = "received"
    /\ main_pc # "exited"
    /\ LET sp == shlex_split(msg)
           kind == IF sp.ok /\ sp.words # <<>>
                   THEN attr_kind(sp.words[1][1]) ELSE ""
       IN CASE ~ sp.ok ->
                 /\ listener_pc' = "dead"
                 /\ listener_exc' = "ValueError"
                 /\ UNCHANGED <<dispatched, warnings, conn_users>>
            [] sp.ok /\ sp.words = <<>> ->
                 /\ listener_pc' = "dead"
                 /\ listener_exc' = "IndexError"
                 /\ dispatched' = Append(dispatched,
                        [cmd_list |-> sp.words, out |-> "IndexError"])
                 /\ UNCHANGED <<warnings, conn_users>>
            [] kind = "missing" ->
                 /\ listener_pc' = "waiting"
                 /\ dispatched' = Append(dispatched,
                        [cmd_list |-> sp.words, out |-> "UserError"])
                 /\ warnings' = Append(warnings, msg)
                 /\ UNCHANGED <<listener_exc, conn_users>>
            [] kind = "attribute" ->
                 /\ listener_pc' = "dead"
                 /\ listener_exc' = "TypeError"
                 /\ dispatched' = Append(dispatched,
                        [cmd_list |-> sp.words, out |-> "TypeError"])
                 /\ UNCHANGED <<warnings, conn_users>>
            [] OTHER ->
                 /\ listener_pc' = "in_command"
                 /\ conn_users' = conn_users \cup {"listener"}
                 /\ UNCHANGED <<listener_exc, dispatched, warnings>>
    /\ UNCHANGED <<msg, received>>
    /\ UNCHANGED <<cliVars, mainVars, fifo_exists, log_exists, atexit_fns>>
    /\ UNCHANGED notSess

\* the command the listener called returns or raises
receive_from_fifo_command_end ==
    /\ listener_pc = "in_command"
    /\ main_pc # "exited"
    /\ conn_users' = conn_users \ {"listener"}
    /\ \E raw \in ServerOutcomes :
          LET out == catch_command_error(raw)
          IN /\ dispatched' = Append(dispatched,
                    [cmd_list |-> shlex_split(msg).words, out |-> raw])
             /\ CASE out = "value" ->
                       /\ listener_pc' = "waiting"
                       /\ UNCHANGED <<listener_exc, warnings>>
                  [] out = "UserError" ->
                       /\ listener_pc' = "waiting"
                       /\ warnings' = Append(warnings, msg)
                       /\ UNCHANGED listener_exc
                  [] OTHER ->
                       /\ listener_pc' = "dead"
                       /\ listener_exc' = out
                       /\ UNCHANGED warnings
    /\ UNCHANGED <<msg, received>>
    /\ UNCHANGED <<cliVars, mainVars, fifo_exists, log_exists, atexit_fns>>
    /\ UNCHANGED notSess

SessNext ==
    \/ ConnectClient_init
    \/ ensure_connect
    \/ process_cli_args
    \/ main_command_begin
    \/ main_command_end
    \/ pipe_to_fzf
    \/ main_return
    \/ main_except
    \/ run_exitfuncs
    \/ get_fifo_logger
    \/ receive_from_fifo_read
    \/ receive_from_fifo_dispatch
    \/ receive_from_fifo_command_end

InitSess == SessInit /\ PipeIdle /\ DupIdle /\ FmtIdle /\ ClientIdle
        /\ FifoIdle
        /\ HdrIdle
        /\ BindIdle /\ CallIdle

SpecSess == InitSess /\ [][SessNext]_vars

(***************************************************************************)
(* Claims about the session, checked under SpecSess.                       *)
(***************************************************************************)
\* C13: no message kills the listener: whatever was written to the pipe
\* (unknown name, empty message, unbalanced quotes, a name that is not a
\* command, a command the server rejects), the listener ends only when the
\* connection is lost for good.
C13_ListenerSurvivesMessages ==
    listener_pc = "dead" => listener_exc = "ConnectionError"

\* C14: once the sentinel is read the listener stops: it reads nothing
\* after it, does not go back to waiting, and does not dispatch it.
C14_SentinelStops ==
    /\ \A i \in 1..Len(received) :
          received[i] = SENTINEL =>
              (i = Len(received) /\ listener_pc # "waiting")
    /\ \A j \in 1..Len(dispatched) : dispatched[j].cmd_list # <<SENTINEL>>

\* C15: the main flow and the listener are never both inside a command on
\* the connection.
C15_ConnectionExclusive == Cardinality(conn_users) <= 1

\* C16: the pipe exists from the start of the session until the process
\* ends, and is gone when the process has ended, however it ended.
C16_FifoScoped ==
    /\ main_pc \notin {"start", "exited"} => fifo_exists
    /\ main_pc = "exited" => ~ fifo_exists

\* the initial connection failed and the process has ended
C16_FailedConnectExit ==
    /\ main_pc = "exited"
    /\ main_exc = "UserError"
    /\ query_out = ""
    /\ exit_code = 1
    /\ ~ fifo_exists

\* C18: a selector that exits with a status other than 0 and other than
\* the statuses with which the user leaves it without a choice (130:
\* interrupted, 1: nothing matched) has failed, and does not give the None
\* result of a cancel.
C18_FailureNotCancel ==
    (fzf_out = "ran" /\ fzf_rc \notin {0, 1, 130}) => view_sel # None

\* C19: when the selector cannot be started the run ends with a UserError
\* that the entry point prints, and with a status other than 0.
C19_LaunchErrorReported ==
    (main_pc \in {"raised", "exiting", "exited"}
        /\ fzf_out = "FileNotFoundError") =>
        /\ main_exc = "UserError"
        /\ main_pc = "exited" => (reported = "Error" /\ exit_code # 0)

MaxHeaderOps == 3

NO_DYNAMIC_HEADERS == 0
DYNAMIC_HEADERS == 1
CAT_DYNAMIC_HEADERS == 2

W_ARTIST == <<"a", "r", "t", "i", "s", "t">>
W_ALBUM == <<"a", "l", "b", "u", "m">>
W_LIST == <<"l", "i", "s", "t">>

\* cmd as given to ViewSettings; the last one ends with an empty string
HdrCmds ==
    { <<W_LIST, W_ARTIST>>,
      <<W_LIST, W_ALBUM, W_ARTIST, <<"R", "a", "d">> >>,
      <<W_LIST, <<>> >> }

\* *args of update_headers: tag names
HdrArgs == { <<>>, <<W_ARTIST>>, <<W_ARTIST, W_ALBUM>> }

\* what is assigned to header: a selection (None when cancelled) or a text
HdrValues == { None, Str(<<>>), Str(<<"R", "a", "d">>) }

HdrWidths == {1, 14, 40}

\* str.upper for one character of the tag names
upper(c) ==
    CASE c = "a" -> "A" [] c = "t" -> "T" [] c = "l" -> "L" [] OTHER -> c

\* str.capitalize for a lower case word
capitalize(x) == IF x = <<>> THEN x ELSE <<upper(Head(x))>> \o Tail(x)

header_always_pair(hs) ==
    << <<"--header">>, IF hs.some THEN hs.val ELSE <<>> >>

\* the header property: ('--header', self.header_str) if self.header_str
\* else ()
header(hs) ==
    IF hs.some /\ hs.val # <<>> THEN << <<"--header">>, hs.val >> ELSE <<>>

\* what update_headers assigns to header_str
update_headers_str(hs, cmd, mode, w, args) ==
    IF mode = DYNAMIC_HEADERS THEN Str(cmd[Len(cmd)])
    ELSE IF mode = CAT_DYNAMIC_HEADERS /\ args # <<>>
         THEN Str(get_formatted_output_line(
                      w, [i \in 1..Len(args) |-> capitalize(args[i])]))
    ELSE hs

HdrInit ==
    /\ vs_cmd \in HdrCmds
    /\ vs_dynamic_headers \in
          {NO_DYNAMIC_HEADERS, DYNAMIC_HEADERS, CAT_DYNAMIC_HEADERS}
    /\ vs_width \in HdrWidths
    /\ vs_header_str = Str(<<>>)
    /\ vs_header = <<>>
    /\ vs_prev_header = <<>>
    /\ vs_op = [name |-> "init", args |-> <<>>]
    /\ vs_ops = 0

\* ViewSettings.update_headers(*args)
update_headers ==
    /\ vs_ops < MaxHeaderOps
    /\ vs_ops' = vs_ops + 1
    /\ \E args \in HdrArgs :
          /\ vs_header_str' = update_headers_str(vs_header_str, vs_cmd,
                                  vs_dynamic_headers, vs_width, args)
          /\ vs_op' = [name |-> "update_headers", args |-> args]
    /\ vs_prev_header' = header(vs_header_str)
    /\ vs_header' = header(vs_header_str')
    /\ UNCHANGED <<vs_cmd, vs_dynamic_headers, vs_width>>
    /\ UNCHANGED notHdr

\* the setter of header: self.header_str = value
header_setter ==
    /\ vs_ops < MaxHeaderOps
    /\ vs_ops' = vs_ops + 1
    /\ \E value \in HdrValues :
          /\ vs_header_str' = value
          /\ vs_op' = [name |-> "header", args |-> <<>>]
    /\ vs_prev_header' = header(vs_header_str)
    /\ vs_header' = header(vs_header_str')
    /\ UNCHANGED <<vs_cmd, vs_dynamic_headers, vs_width>>
    /\ UNCHANGED notHdr

HdrNext == update_headers \/ header_setter

InitHdr == HdrInit /\ PipeIdle /\ DupIdle /\ FmtIdle /\ ClientIdle
        /\ FifoIdle
        /\ BindIdle /\ CallIdle /\ SessIdle

SpecHdr == InitHdr /\ [][HdrNext]_vars

\* the text of the header: nothing when header_str is None
HeaderText == IF vs_header_str.some THEN vs_header_str.val ELSE <<>>

\* C21: header is () exactly when the header text is empty and the pair
\* ("--header", text) otherwise; update_headers with mode NONE leaves the
\* header as it was; with mode ECHO_LAST_TOKEN and non-empty tokens it
\* makes it ("--header", last token); with mode FIELD_LABELS and non-empty
\* field names it makes it a pair with a non-empty text.
C21_HeaderTuple ==
    /\ vs_header = <<>> <=> HeaderText = <<>>
    /\ vs_header # <<>> => vs_header = << <<"--header">>, HeaderText >>
    /\ vs_op.name = "update_headers" =>
          /\ vs_dynamic_headers = NO_DYNAMIC_HEADERS =>
                vs_header = vs_prev_header
          /\ (vs_dynamic_headers = DYNAMIC_HEADERS
                 /\ \A i \in 1..Len(vs_cmd) : vs_cmd[i] # <<>>) =>
                vs_header = << <<"--header">>, vs_cmd[Len(vs_cmd)] >>
          /\ (vs_dynamic_headers = CAT_DYNAMIC_HEADERS /\ vs_op.args # <<>>) =>
                /\ Len(vs_header) = 2
                /\ vs_header[1] = <<"--header">>
                /\ vs_header[2] # <<>>
                /\ \E i \in 1..Len(vs_header[2]) : vs_header[2][i] = "A"

\* field labels were made the header after the header had been emptied
C21_FieldLabelsHeader ==
    /\ vs_dynamic_headers = CAT_DYNAMIC_HEADERS
    /\ vs_ops >= 2
    /\ vs_prev_header = <<>>
    /\ vs_op = [name |-> "update_headers", args |-> <<W_ARTIST, W_ALBUM>>]
    /\ Len(vs_header) = 2

(***************************************************************************)
(* Further claims about FilterView, checked under SpecPipe.                *)
(***************************************************************************)
\* C23: in every reachable state of pass_through, selections holds entries
\* only for stages with an index strictly less than the stage index.
C23_SelectionsBelowState ==
    \A i \in 1..Len(selections) : selections[i].key < state

(***************************************************************************)
(* FilterView driven through its methods: move_forward is a public method, *)
(* so a caller may skip stages before it calls pass_through.  The loop of  *)
(* pass_through is the one of SpecPipe.                                    *)
(***************************************************************************)
FilterView_init ==
    /\ \E n \in 1..MaxStages :
          /\ views = [i \in 1..n |-> ViewSettings(<<Fields[i]>>)]
          /\ final_state = n
    /\ fv_dynamic_headers \in BOOLEAN
    /\ final_view \in FinalViews
    /\ state = 0
    /\ selections = <<>>
    /\ pc = "constructed"
    /\ execLog = <<>>
    /\ findCalls = <<>>

\* the caller calls move_forward() on the fresh FilterView
caller_move_forward ==
    /\ pc = "constructed"
    /\ state < MaxStages
    /\ state' = move_forward(state)
    /\ UNCHANGED <<views, fv_dynamic_headers, final_view, final_state,
                   selections, pc, execLog, findCalls>>
    /\ UNCHANGED notPipe

\* the caller calls pass_through()
caller_pass_through ==
    /\ pc = "constructed"
    /\ pc' = "pass_through"
    /\ UNCHANGED <<views, fv_dynamic_headers, final_view, state, final_state,
                   selections, execLog, findCalls>>
    /\ UNCHANGED notPipe

\* get_adapted_view raises KeyError and pass_through ends with it
PassThroughKeyError ==
    /\ pc = "pass_through"
    /\ state \in 0..(final_state - 1)
    /\ header_KeyError(state, selections, fv_dynamic_headers)
    /\ pc' = "KeyError"
    /\ UNCHANGED <<views, fv_dynamic_headers, final_view, state, final_state,
                   selections, execLog, findCalls>>
    /\ UNCHANGED notPipe

FVNext ==
    \/ caller_move_forward
    \/ caller_pass_through
    \/ PassThroughKeyError
    \/ PassThroughStep
    \/ PassThroughReturn
    \/ get_filtered_selection

InitFV == FilterView_init /\ DupIdle /\ FmtIdle /\ ClientIdle /\ BindIdle
        /\ FifoIdle
        /\ HdrIdle
        /\ SessIdle
        /\ CallIdle

SpecFV == InitFV /\ [][FVNext]_vars

(***************************************************************************)
(* Claims about FilterView, checked under SpecFV.                          *)
(***************************************************************************)
RECURSIVE EarlierFilters(_, _, _, _)
\* the (field, value) pairs of the stages k..st-1 that hold a selection
EarlierFilters(k, st, sels, vs) ==
    IF k >= st THEN <<>>
    ELSE (IF HasKey(sels, k) /\ Lookup(sels, k) # None
          THEN <<Str(<<vs[k + 1].cmd[1]>>), Lookup(sels, k)>>
          ELSE <<>>) \o EarlierFilters(k + 1, st, sels, vs)

ExpectedCmd(st, sels, vs) ==
    [i \in 1..Len(vs[st + 1].cmd) |-> Str(<<vs[st + 1].cmd[i]>>)]
        \o EarlierFilters(0, st, sels, vs)

StageExecuted == Len(execLog') > Len(execLog)

\* C22: whenever a stage is executed, also after backtracking, its command
\* is the stage's base command followed by exactly the (field, value) pairs
\* of the selections of the earlier stages, in stage order: no pair of the
\* stage itself or of a later stage, and no pair with the value None.
C22_CommandIsBasePlusEarlier ==
    [][StageExecuted =>
          execLog'[Len(execLog')].cmd = ExpectedCmd(state, selections, views)]_vars

\* C24: a cancel at a stage s > 0 (the selector exits with a status other
\* than 0) decrements the stage index by one and changes nothing in
\* selections.
C24_CancelOnlyDecrements ==
    [][(StageExecuted /\ state > 0 /\ execLog'[Len(execLog')].answer.rc # 0) =>
          (state' = state - 1 /\ selections' = selections)]_vars

MaxFragments == 2

\* the commands a binding can send
EchoLines == { <<"play">>, <<"next">>, <<"seekcur", SPACE, "10">> }

\* ' && '.join(cmds): one echo per fragment of the mfp() action
EchoChains == UNION { [1..n -> EchoLines] : n \in 1..MaxFragments }

FifoInit ==
    /\ echo_lines \in EchoChains
    /\ echo_idx = 1
    /\ echo_pc = "open"
    /\ fifo_writers = 0
    /\ fifo_reader = FALSE
    /\ fifo_wake = FALSE
    /\ fifo_buf = <<>>
    /\ rff_pc = "loop"
    /\ rff_msg = <<>>
    /\ rff_cmds = <<>>

\* the shell opens the fifo for `> fifo`: it waits for a reader
echo_open ==
    /\ echo_pc = "open"
    /\ fifo_reader
    /\ fifo_writers' = fifo_writers + 1
    /\ fifo_wake' = TRUE
    /\ echo_pc' = "write"
    /\ UNCHANGED <<echo_lines, echo_idx, fifo_reader, fifo_buf, rff_pc,
                   rff_msg, rff_cmds>>
    /\ UNCHANGED notFifo

\* echo writes its line; without a reader the write fails (EPIPE) and the
\* chain of && ends
echo_write ==
    /\ echo_pc = "write"
    /\ IF fifo_reader
       THEN /\ fifo_buf' = fifo_buf \o echo_lines[echo_idx] \o <<NL>>
            /\ echo_pc' = "close"
            /\ UNCHANGED fifo_writers
       ELSE /\ echo_pc' = "EPIPE"
            /\ fifo_writers' = fifo_writers - 1
            /\ UNCHANGED fifo_buf
    /\ UNCHANGED <<echo_lines, echo_idx, fifo_reader, fifo_wake, rff_pc,
                   rff_msg, rff_cmds>>
    /\ UNCHANGED notFifo

\* the echo command ends and && starts the next one
echo_close ==
    /\ echo_pc = "close"
    /\ fifo_writers' = fifo_writers - 1
    /\ IF echo_idx < Len(echo_lines)
       THEN echo_idx' = echo_idx + 1 /\ echo_pc' = "open"
       ELSE echo_idx' = echo_idx /\ echo_pc' = "done"
    /\ UNCHANGED <<echo_lines, fifo_reader, fifo_wake, fifo_buf, rff_pc,
                   rff_msg, rff_cmds>>
    /\ UNCHANGED notFifo

\* with open(self.fifo) as fifo: the call of open begins
receive_from_fifo_open ==
    /\ rff_pc = "loop"
    /\ fifo_reader' = TRUE
    /\ fifo_wake' = (fifo_writers > 0)
    /\ rff_pc' = "open"
    /\ UNCHANGED <<echo_lines, echo_idx, echo_pc, fifo_writers, fifo_buf,
                   rff_msg, rff_cmds>>
    /\ UNCHANGED notFifo

\* open returns once a writer has opened the fifo
receive_from_fifo_opened ==
    /\ rff_pc = "open"
    /\ fifo_wake
    /\ rff_pc' = "read"
    /\ rff_msg' = <<>>
    /\ UNCHANGED <<echo_lines, echo_idx, echo_pc, fifo_writers, fifo_reader,
                   fifo_wake, fifo_buf, rff_cmds>>
    /\ UNCHANGED notFifo

\* fifo.read() collects what is in the pipe and goes on reading
fifo_read_data ==
    /\ rff_pc = "read"
    /\ fifo_buf # <<>>
    /\ rff_msg' = rff_msg \o fifo_buf
    /\ fifo_buf' = <<>>
    /\ UNCHANGED <<echo_lines, echo_idx, echo_pc, fifo_writers, fifo_reader,
                   fifo_wake, rff_pc, rff_cmds>>
    /\ UNCHANGED notFifo

\* fifo.read() returns: the pipe is empty and no write end is open
fifo_read_eof ==
    /\ rff_pc = "read"
    /\ fifo_buf = <<>>
    /\ fifo_writers = 0
    /\ rff_pc' = "dispatch"
    /\ UNCHANGED <<echo_lines, echo_idx, echo_pc, fifo_writers, fifo_reader,
                   fifo_wake, fifo_buf, rff_msg, rff_cmds>>
    /\ UNCHANGED notFifo

\* msg = msg.strip("\n"); self.run_mpd_command(shlex.split(msg))
fifo_dispatch ==
    /\ rff_pc = "dispatch"
    /\ rff_cmds' = Append(rff_cmds, shlex_split(strip(rff_msg, NL)).words)
    /\ rff_pc' = "close"
    /\ UNCHANGED <<echo_lines, echo_idx, echo_pc, fifo_writers, fifo_reader,
                   fifo_wake, fifo_buf, rff_msg>>
    /\ UNCHANGED notFifo

\* the with block ends: the read end is closed, and a pipe nobody holds
\* loses what is in it
fifo_close ==
    /\ rff_pc = "close"
    /\ fifo_reader' = FALSE
    /\ fifo_buf' = IF fifo_writers = 0 THEN <<>> ELSE fifo_buf
    /\ rff_pc' = "loop"
    /\ UNCHANGED <<echo_lines, echo_idx, echo_pc, fifo_writers, fifo_wake,
                   rff_msg, rff_cmds>>
    /\ UNCHANGED notFifo

FifoNext ==
    \/ echo_open
    \/ echo_write
    \/ echo_close
    \/ receive_from_fifo_open
    \/ receive_from_fifo_opened
    \/ fifo_read_data
    \/ fifo_read_eof
    \/ fifo_dispatch
    \/ fifo_close

InitFifo == FifoInit /\ PipeIdle /\ DupIdle /\ FmtIdle /\ ClientIdle
        /\ BindIdle /\ CallIdle /\ SessIdle /\ HdrIdle

SpecFifo == InitFifo /\ [][FifoNext]_vars

(***************************************************************************)
(* Claims about the fifo, checked under SpecFifo.                          *)
(***************************************************************************)
LineCommand(j) == shlex_split(echo_lines[j]).words

\* C26: every line written to the fifo is dispatched as exactly one command
\* whose name is the first token of the line, under every interleaving of
\* the echo commands and the listener: two lines are never read together
\* and dispatched as one command.
C26_OneCommandPerLine ==
    /\ \A i \in 1..Len(rff_cmds) :
          \E j \in 1..Len(echo_lines) : rff_cmds[i] = LineCommand(j)
    /\ (echo_pc = "done" /\ rff_pc = "open" /\ ~ fifo_wake) =>
          rff_cmds = [j \in 1..Len(echo_lines) |-> LineCommand(j)]

(***************************************************************************)
(* client.py: find and search called by two threads on the one client.     *)
(* The main flow calls with or without required_tags, the listener         *)
(* (run_mpd_command) always without.  Every read and write of the field    *)
(* self.required_tags is a step of its own.                                *)
(***************************************************************************)
MaxRaceRecords == 1

\* what MPDClient.find / search returns to the main thread
RaceResults == {m \in UpstreamResults : Len(m) <= MaxRaceRecords}

\* the main thread is ready to call, the listener is ready to dispatch
ThreadsInit ==
    /\ required_tags = NoTags
    /\ find_kind = "find"
    /\ find_req = NoTags
    /\ find_match = <<>>
    /\ find_ret = <<>>
    /\ find_calls = 0
    /\ client_pc = "ready"
    /\ lf_pc = "ready"
    /\ lf_ret = ""

\* match = f(self, *args, **kwargs) returns in the main thread
find_f_returns ==
    /\ client_pc = "in_find"
    /\ \E match \in RaceResults : find_match' = match
    /\ client_pc' = "check"
    /\ UNCHANGED <<required_tags, find_kind, find_req, find_ret, find_calls,
                   lf_pc, lf_ret>>
    /\ UNCHANGED notClient

\* if self.required_tags: ... else: return match
find_check ==
    /\ client_pc = "check"
    /\ IF truthy(required_tags)
       THEN client_pc' = "map" /\ find_ret' = <<>>
       ELSE client_pc' = "returned" /\ find_ret' = find_match
    /\ UNCHANGED <<required_tags, find_kind, find_req, find_match,
                   find_calls, lf_pc, lf_ret>>
    /\ UNCHANGED notClient

\* list(map(self.ensure_tags, match)): the next record, or the return;
\* ensure_tags reads self.required_tags, and filter(..., False) raises
\* TypeError
find_map ==
    /\ client_pc = "map"
    /\ IF Len(find_ret) = Len(find_match)
       THEN client_pc' = "returned" /\ UNCHANGED find_ret
       ELSE IF required_tags.given
            THEN /\ find_ret' = Append(find_ret,
                        ensure_tags(find_match[Len(find_ret) + 1],
                                    required_tags))
                 /\ UNCHANGED client_pc
            ELSE client_pc' = "TypeError" /\ UNCHANGED find_ret
    /\ UNCHANGED <<required_tags, find_kind, find_req, find_match,
                   find_calls, lf_pc, lf_ret>>
    /\ UNCHANGED notClient

\* the listener dispatches find or search: kwargs is empty, so
\* self.required_tags = False
listener_find_enter ==
    /\ lf_pc = "ready"
    /\ required_tags' = NoTags
    /\ lf_pc' = "in_find"
    /\ UNCHANGED <<find_kind, find_req, find_match, find_ret, find_calls,
                   client_pc, lf_ret>>
    /\ UNCHANGED notClient

\* the listener's call returns; receive_from_fifo drops the value
listener_find_return ==
    /\ lf_pc = "in_find"
    /\ lf_ret' = IF truthy(required_tags) THEN "ensured" ELSE "match"
    /\ lf_pc' = "returned"
    /\ UNCHANGED <<required_tags, find_kind, find_req, find_match, find_ret,
                   find_calls, client_pc>>
    /\ UNCHANGED notClient

ThreadsNext ==
    \/ FindEnter
    \/ find_f_returns
    \/ find_check
    \/ find_map
    \/ listener_find_enter
    \/ listener_find_return

InitThreads == ThreadsInit /\ PipeIdle /\ DupIdle /\ FmtIdle /\ BindIdle
        /\ CallIdle /\ SessIdle /\ HdrIdle /\ FifoIdle

SpecThreads == InitThreads /\ [][ThreadsNext]_vars

\* C27: a find or search of the main flow with required_tags returns
\* records that hold all of those tags, whenever the listener dispatches
\* its own find or search during the call.
C27_MainFindTagsComplete ==
    /\ client_pc # "TypeError"
    /\ (client_pc = "returned" /\ find_req.given) =>
          /\ Len(find_ret) = Len(find_match)
          /\ \A i \in 1..Len(find_ret) :
                \A t \in Range(find_req.tags) : t \in DOMAIN find_ret[i]

====
